---------------------------- MODULE Spec2Model ----------------------------
(***************************************************************************)
(* Model of the epoch-server MCP adapter (src/mcp-server/main.py).         *)
(*                                                                         *)
(* The program registers three tool handlers on an mcp Server and, for     *)
(* each tool call, runs a handler that validates epoch_id, issues one HTTP *)
(* request through a shared httpx.AsyncClient and renders the outcome as a *)
(* single TextContent.                                                     *)
(*                                                                         *)
(* Python values are tagged records, texts are kept both as the rendered   *)
(* string and as the pieces of the f-string that built them.               *)
(***************************************************************************)
EXTENDS Naturals, Sequences, FiniteSets, TLC

VARIABLES
    environ,            \* os.environ after load_dotenv()          (main.py:16)
    EPOCH_SERVER_URL,   \* module global                           (main.py:19)
    request_handlers,   \* Server.request_handlers after setup_tools()
    pc,                 \* per invocation: where its handling stands
    name,               \* per invocation: CallToolRequest.params.name
    arguments,          \* per invocation: CallToolRequest.params.arguments
    handler,            \* per invocation: the coroutine function that runs it
    locals,             \* per call frame: the handler's local epoch_id
    requests,           \* per invocation: HTTP requests it has issued
    outcome,            \* per invocation: what its awaited HTTP call produced
    result              \* per invocation: what the handler returned or raised

vars == <<environ, EPOCH_SERVER_URL, request_handlers, pc, name, arguments,
          handler, locals, requests, outcome, result>>

---------------------------------------------------------------------------
(* Bounds of the model *)

\* Invocations that may be in flight together (suspended at their HTTP call).
MaxInv == 2

Invocations == 1..MaxInv

---------------------------------------------------------------------------
(* Python values *)

PyNone == [t |-> "NoneType"]
PyStr(s) == [t |-> "str", s |-> s]
PyInt(n) == [t |-> "int", n |-> n]
PyBool(b) == [t |-> "bool", b |-> b]
PyList(items) == [t |-> "list", items |-> items]
PyDict(k, v) == [t |-> "dict", key |-> k, val |-> v]

\* A local name that has not been assigned yet.
Unbound == [t |-> "unbound"]

\* `not epoch_id` (main.py:101, 147) is Python truthiness.
TruthyIsNotNone(v) == v.t # "NoneType"

Truthy(v) ==
    CASE v.t = "NoneType" -> FALSE
      [] v.t = "str"      -> v.s # ""
      [] v.t = "int"      -> v.n # 0
      [] v.t = "bool"     -> v.b
      [] v.t = "list"     -> v.items # <<>>
      [] v.t = "dict"     -> TRUE

Digit(d) ==
    CASE d = 0 -> "0" [] d = 1 -> "1" [] d = 2 -> "2" [] d = 3 -> "3"
      [] d = 4 -> "4" [] d = 5 -> "5" [] d = 6 -> "6" [] d = 7 -> "7"
      [] d = 8 -> "8" [] d = 9 -> "9"

RECURSIVE Decimal(_)
Decimal(n) == IF n < 10 THEN Digit(n) ELSE Decimal(n \div 10) \o Digit(n % 10)

\* repr() of the values that occur inside containers.
Repr(v) ==
    CASE v.t = "str"      -> "'" \o v.s \o "'"
      [] v.t = "int"      -> Decimal(v.n)
      [] v.t = "bool"     -> (IF v.b THEN "True" ELSE "False")
      [] v.t = "NoneType" -> "None"

RECURSIVE JoinRepr(_)
JoinRepr(items) ==
    IF items = <<>> THEN ""
    ELSE IF Len(items) = 1 THEN Repr(items[1])
    ELSE Repr(items[1]) \o ", " \o JoinRepr(Tail(items))

\* A bug that would percent-encode the value before putting it in the path.
FormatQuoted(v) ==
    CASE v.t = "str"      -> (IF v.s = "a/b" THEN "a%2Fb" ELSE v.s)
      [] v.t = "int"      -> Decimal(v.n)
      [] v.t = "bool"     -> (IF v.b THEN "True" ELSE "False")
      [] v.t = "NoneType" -> "None"
      [] v.t = "list"     -> "%5B" \o JoinRepr(v.items) \o "%5D"
      [] v.t = "dict"     -> "{'" \o v.key \o "': " \o Repr(v.val) \o "}"

\* "{value}" inside an f-string: format(value, "") = str(value).
Format(v) ==
    CASE v.t = "str"      -> v.s
      [] v.t = "int"      -> Decimal(v.n)
      [] v.t = "bool"     -> (IF v.b THEN "True" ELSE "False")
      [] v.t = "NoneType" -> "None"
      [] v.t = "list"     -> "[" \o JoinRepr(v.items) \o "]"
      [] v.t = "dict"     -> "{'" \o v.key \o "': " \o Repr(v.val) \o "}"

RECURSIVE Render(_)
\* The string an f-string evaluates to, from its pieces.
Render(parts) == IF parts = <<>> THEN "" ELSE Head(parts) \o Render(Tail(parts))

TextContent(parts) == [type |-> "text", text |-> Render(parts), parts |-> parts]

---------------------------------------------------------------------------
(* Configuration *)

DefaultUrl == "http://localhost:8080"

NoEnv == [k \in {} |-> ""]

\* os.environ as the process may find it: the key unset, set to the empty
\* string, or set to a URL.
Environs == {NoEnv, [EPOCH_SERVER_URL |-> ""], [EPOCH_SERVER_URL |-> "http://x"]}

\* os.getenv(key, default): the default only when the key is absent.
getenv(env, key, default) == IF key \in DOMAIN env THEN env[key] ELSE default

\* httpx.AsyncClient(timeout=30.0)
Timeout == 30


---------------------------------------------------------------------------
(* Tool registry and dispatch *)

ToolNames == {"health_check", "start_epoch", "distribute_subsidies"}

\* The coroutine function written for each tool (main.py:75, 97, 143).
ToolHandler(n) ==
    CASE n = "health_check"         -> "handle_health_check"
      [] n = "start_epoch"          -> "handle_start_epoch"
      [] n = "distribute_subsidies" -> "handle_distribute_subsidies"

\* Tools whose handler reads epoch_id (inputSchema "required", main.py:53, 69).
NeedsEpochId(h) == h \in {"handle_start_epoch", "handle_distribute_subsidies"}

NoHandlers == [r \in {} |-> ""]

\* @self.server.call_tool(): the decorator of mcp 1.0.0 (the version run.py
\* pins) stores the function as THE handler of CallToolRequest,
\*     self.request_handlers[types.CallToolRequest] = handler
\* and calls it as func(req.params.name, req.params.arguments or {}) for every
\* tool call, whatever the tool's name.
call_tool(handlers, func) ==
    [r \in DOMAIN handlers \cup {"CallToolRequest"} |->
        IF r = "CallToolRequest" THEN func ELSE handlers[r]]

\* The three decorated definitions of setup_tools, in source order.
setup_tools ==
    call_tool(call_tool(call_tool(NoHandlers,
        "handle_health_check"), "handle_start_epoch"), "handle_distribute_subsidies")

---------------------------------------------------------------------------
(* HTTP *)

Response(status, text) == [kind |-> "response", status_code |-> status, text |-> text]
Raised(exc, message) == [kind |-> "exception", exc |-> exc, message |-> message]
NoOutcome == [kind |-> "none"]

\* What the epoch server, the network or the 30 s timeout may answer a request with.
Outcomes ==
    { Response(200, "{\"status\": \"started\"}"),
      Response(200, "OK"),
      Response(404, "{\"error\": \"boom\"}"),
      Response(500, "{\"error\": \"boom\"}"),
      Response(500, "boom"),
      Raised("ConnectError", "All connection attempts failed"),
      Raised("ReadTimeout", "timed out") }

\* httpx sends nothing to a URL without a scheme: with an empty base URL the
\* awaited call raises at once.
UnsupportedProtocol ==
    Raised("UnsupportedProtocol",
           "Request URL is missing an 'http://' or 'https://' protocol.")

Sendable(base) == base # ""

SmallOutcomes ==
    { Response(200, "{\"status\": \"started\"}"),
      Response(500, "boom"),
      Raised("ReadTimeout", "timed out") }

\* response.json() on the bodies above: json.loads of the text.
JsonLoads(text) ==
    CASE text = "{\"status\": \"started\"}" ->
            [ok |-> TRUE, value |-> PyDict("status", PyStr("started"))]
      [] text = "{\"error\": \"boom\"}" ->
            [ok |-> TRUE, value |-> PyDict("error", PyStr("boom"))]
      [] OTHER ->
            [ok |-> FALSE, message |-> "Expecting value: line 1 column 1 (char 0)"]

\* httpx.Response.is_success
IsSuccess(status) == 200 <= status /\ status <= 299

ReasonPhrase(status) ==
    CASE status = 200 -> "OK"
      [] status = 404 -> "Not Found"
      [] status = 500 -> "Internal Server Error"

ErrorType(status) ==
    CASE status \div 100 = 1 -> "Informational response"
      [] status \div 100 = 3 -> "Redirect response"
      [] status \div 100 = 4 -> "Client error"
      [] status \div 100 = 5 -> "Server error"

\* str(e) of the HTTPStatusError that response.raise_for_status() raises.
StatusErrorParts(response, url) ==
    << ErrorType(response.status_code), " '", Decimal(response.status_code), " ",
       ReasonPhrase(response.status_code), "' for url '", url,
       "'\nFor more information check: https://developer.mozilla.org/en-US/docs/Web/HTTP/Status/",
       Decimal(response.status_code) >>

\* The request each handler issues (main.py:78, 109-111, 155-157).
Method(h) == IF h = "handle_health_check" THEN "GET" ELSE "POST"

Url(h, base, epoch_id) ==
    CASE h = "handle_health_check"         -> base \o "/health"
      [] h = "handle_start_epoch"          -> base \o "/epochs/" \o Format(epoch_id) \o "/start"
      [] h = "handle_distribute_subsidies" -> base \o "/epochs/" \o Format(epoch_id) \o "/distribute"

Request(h, base, epoch_id) ==
    [method |-> Method(h), url |-> Url(h, base, epoch_id), timeout |-> Timeout]

---------------------------------------------------------------------------
(* The handlers' code after the awaited call *)

\* The try block from the resumed await on: the call's own exception,
\* raise_for_status(), response.json() (main.py:78-81, 109-114, 155-160).
TryBody(o, url) ==
    IF o.kind = "exception"
    THEN [raised |-> TRUE, exc |-> o.exc, parts |-> <<o.message>>]
    ELSE IF ~IsSuccess(o.status_code)
    THEN [raised |-> TRUE, exc |-> "HTTPStatusError", parts |-> StatusErrorParts(o, url)]
    ELSE IF ~JsonLoads(o.text).ok
    THEN [raised |-> TRUE, exc |-> "JSONDecodeError", parts |-> <<JsonLoads(o.text).message>>]
    ELSE [raised |-> FALSE, value |-> JsonLoads(o.text).value]

\* A handler whose last clause were `except httpx.HTTPError`.
ExceptClauseHttpOnly(h, exc) ==
    IF exc = "HTTPStatusError" /\ h # "handle_health_check" THEN "HTTPStatusError"
    ELSE IF exc \in {"HTTPStatusError", "ConnectError", "ReadTimeout", "UnsupportedProtocol"}
         THEN "Exception"
    ELSE "none"

\* The except clause of handler h that catches exc: handle_health_check has
\* only `except Exception` (main.py:88); the other two try
\* `except httpx.HTTPStatusError` first (main.py:121, 134, 167, 180).
ExceptClause(h, exc) ==
    IF exc = "HTTPStatusError" /\ h # "handle_health_check" THEN "HTTPStatusError"
    ELSE "Exception"

\* error_detail (main.py:122-126, 168-172): the decoded body, else the raw text.
ErrorDetail(response) ==
    IF JsonLoads(response.text).ok
    THEN Format(JsonLoads(response.text).value)
    ELSE Format(PyStr(response.text))

SuccessParts(h, epoch_id, value) ==
    CASE h = "handle_health_check" ->
            <<"Health check successful: ", Format(value)>>
      [] h = "handle_start_epoch" ->
            <<"Epoch ", Format(epoch_id), " started successfully: ", Format(value)>>
      [] h = "handle_distribute_subsidies" ->
            <<"Subsidies distributed for epoch ", Format(epoch_id), ": ", Format(value)>>

HttpErrorParts(h, epoch_id, response) ==
    CASE h = "handle_start_epoch" ->
            <<"Failed to start epoch ", Format(epoch_id), ": HTTP ",
              Decimal(response.status_code), " - ", ErrorDetail(response)>>
      [] h = "handle_distribute_subsidies" ->
            <<"Failed to distribute subsidies for epoch ", Format(epoch_id), ": HTTP ",
              Decimal(response.status_code), " - ", ErrorDetail(response)>>

FailureParts(h, epoch_id, excParts) ==
    CASE h = "handle_health_check" ->
            <<"Health check failed: ">> \o excParts
      [] h = "handle_start_epoch" ->
            <<"Failed to start epoch ", Format(epoch_id), ": ">> \o excParts
      [] h = "handle_distribute_subsidies" ->
            <<"Failed to distribute subsidies for epoch ", Format(epoch_id), ": ">> \o excParts

NoResult == [kind |-> "none"]
Returns(content) == [kind |-> "return", content |-> content]
Raises(exc) == [kind |-> "raise", exc |-> exc]

\* What handler h hands back once its HTTP call has produced outcome o.
HandlerResult(h, epoch_id, o, url) ==
    LET t == TryBody(o, url) IN
    IF ~t.raised
    THEN Returns(<<TextContent(SuccessParts(h, epoch_id, t.value))>>)
    ELSE CASE ExceptClause(h, t.exc) = "HTTPStatusError" ->
                Returns(<<TextContent(HttpErrorParts(h, epoch_id, o))>>)
           [] ExceptClause(h, t.exc) = "Exception" ->
                Returns(<<TextContent(FailureParts(h, epoch_id, t.parts))>>)
           [] OTHER -> Raises(t.exc)

\* A handler that re-issued the call after a failure would be calling again.
DispositionRetry(o) ==
    IF o.kind = "exception" THEN "Calling"
    ELSE IF ~IsSuccess(o.status_code) THEN "HttpError"
    ELSE IF ~JsonLoads(o.text).ok THEN "TransportFailure"
    ELSE "Success"

\* Which branch an invocation is in once its call has completed: the try
\* body's return, an HTTPStatusError, or any other exception.
Disposition(o) ==
    IF o.kind = "exception" THEN "TransportFailure"
    ELSE IF ~IsSuccess(o.status_code) THEN "HttpError"
    ELSE IF ~JsonLoads(o.text).ok THEN "TransportFailure"
    ELSE "Success"

---------------------------------------------------------------------------
(* Invocations *)

NoArgs == [k \in {} |-> PyNone]

\* Values a caller may send as epoch_id (the schema's "string" is not enforced
\* by the handlers).
EpochValues ==
    { PyNone, PyStr(""), PyStr("42"), PyStr("a/b"), PyInt(0), PyInt(7),
      PyBool(FALSE), PyList(<<>>), PyList(<<PyStr("x")>>) }

Arguments == {NoArgs} \cup {[epoch_id |-> v] : v \in EpochValues}

SmallArguments == {NoArgs, [epoch_id |-> PyStr("1")], [epoch_id |-> PyStr("2")]}

\* arguments.get("epoch_id") (main.py:100, 146)
get(mapping, key) == IF key \in DOMAIN mapping THEN mapping[key] ELSE PyNone

\* A handler that kept epoch_id on the shared server object instead of in a local.
SharedFrame(i) == 1

\* Each call of a coroutine function has a frame of its own for its locals.
Frame(i) == i

Init ==
    /\ environ \in Environs
    /\ EPOCH_SERVER_URL = getenv(environ, "EPOCH_SERVER_URL", DefaultUrl)
    /\ request_handlers = setup_tools
    /\ pc = [i \in Invocations |-> "Idle"]
    /\ name = [i \in Invocations |-> ""]
    /\ arguments = [i \in Invocations |-> NoArgs]
    /\ handler = [i \in Invocations |-> ""]
    /\ locals = [f \in Invocations |-> [epoch_id |-> Unbound]]
    /\ requests = [i \in Invocations |-> <<>>]
    /\ outcome = [i \in Invocations |-> NoOutcome]
    /\ result = [i \in Invocations |-> NoResult]

\* A tools/call message arrives and the server calls the registered handler
\* with (name, arguments) (main.py:195-202 running what main.py:74-143 registered).
Receive(i, n, a) ==
    /\ pc[i] = "Idle"
    /\ "CallToolRequest" \in DOMAIN request_handlers
    /\ name' = [name EXCEPT ![i] = n]
    /\ arguments' = [arguments EXCEPT ![i] = a]
    /\ handler' = [handler EXCEPT ![i] = request_handlers["CallToolRequest"]]
    /\ pc' = [pc EXCEPT ![i] = "Validating"]
    /\ UNCHANGED <<environ, EPOCH_SERVER_URL, request_handlers, locals, requests,
                   outcome, result>>

\* The handler written for tool n is called with an invocation of tool n.
CallHandler(i, n, a) ==
    /\ pc[i] = "Idle"
    /\ name' = [name EXCEPT ![i] = n]
    /\ arguments' = [arguments EXCEPT ![i] = a]
    /\ handler' = [handler EXCEPT ![i] = ToolHandler(n)]
    /\ pc' = [pc EXCEPT ![i] = "Validating"]
    /\ UNCHANGED <<environ, EPOCH_SERVER_URL, request_handlers, locals, requests,
                   outcome, result>>

\* The handler from its entry to its first await or return
\* (main.py:77-78, 99-111, 145-157).
Validate(i) ==
    /\ pc[i] = "Validating"
    /\ IF handler[i] = "handle_health_check"
       THEN /\ requests' = [requests EXCEPT ![i] =
                   Append(@, Request(handler[i], EPOCH_SERVER_URL, PyNone))]
            /\ pc' = [pc EXCEPT ![i] = "Calling"]
            /\ UNCHANGED <<locals, result>>
       ELSE LET epoch_id == get(arguments[i], "epoch_id") IN
            /\ locals' = [locals EXCEPT ![Frame(i)].epoch_id = epoch_id]
            /\ IF ~Truthy(epoch_id)
               THEN /\ result' = [result EXCEPT ![i] =
                           Returns(<<TextContent(<<"Error: epoch_id is required">>)>>)]
                    /\ pc' = [pc EXCEPT ![i] = "ShortCircuitError"]
                    /\ UNCHANGED requests
               ELSE /\ requests' = [requests EXCEPT ![i] =
                           Append(@, Request(handler[i], EPOCH_SERVER_URL, epoch_id))]
                    /\ pc' = [pc EXCEPT ![i] = "Calling"]
                    /\ UNCHANGED result
    /\ UNCHANGED <<environ, EPOCH_SERVER_URL, request_handlers, name, arguments,
                   handler, outcome>>

\* The awaited call completes with o and the handler runs to its return
\* (main.py:79-94, 112-140, 158-186).
Complete(i, o) ==
    /\ pc[i] = "Calling"
    /\ o = UnsupportedProtocol <=> ~Sendable(EPOCH_SERVER_URL)
    /\ outcome' = [outcome EXCEPT ![i] = o]
    /\ result' = [result EXCEPT ![i] =
            HandlerResult(handler[i], locals[Frame(i)].epoch_id, o,
                          requests[i][Len(requests[i])].url)]
    /\ pc' = [pc EXCEPT ![i] = Disposition(o)]
    /\ UNCHANGED <<environ, EPOCH_SERVER_URL, request_handlers, name, arguments,
                   handler, locals, requests>>

\* The handler's value goes back to the caller as the tool's output.
Return(i) ==
    /\ pc[i] \in {"ShortCircuitError", "Success", "HttpError", "TransportFailure"}
    /\ pc' = [pc EXCEPT ![i] = "Done"]
    /\ UNCHANGED <<environ, EPOCH_SERVER_URL, request_handlers, name, arguments,
                   handler, locals, requests, outcome, result>>

---------------------------------------------------------------------------
(* Specifications *)

\* The server as built: one tool call taken through it, over the full input domain.
ReceiveCall == \E n \in ToolNames, a \in Arguments : Receive(1, n, a)
ValidateStep == \E i \in Invocations : Validate(i)
CompleteCall == \E i \in Invocations, o \in Outcomes \cup {UnsupportedProtocol} : Complete(i, o)
ReturnStep == \E i \in Invocations : Return(i)

Next == ReceiveCall \/ ValidateStep \/ CompleteCall \/ ReturnStep

Spec == Init /\ [][Next]_vars

\* Each handler run on invocations of its own tool, over the full input domain.
CallOwnHandler == \E n \in ToolNames, a \in Arguments : CallHandler(1, n, a)

HandlerNext == CallOwnHandler \/ ValidateStep \/ CompleteCall \/ ReturnStep

HandlerSpec == Init /\ [][HandlerNext]_vars

\* Both ways in: what holds here holds of the server as built and of every
\* handler on its own tool's invocations.
FullNext == ReceiveCall \/ CallOwnHandler \/ ValidateStep \/ CompleteCall \/ ReturnStep

FullSpec == Init /\ [][FullNext]_vars

\* The server as built with up to MaxInv tool calls in flight together.
ConcInit == Init /\ environ = NoEnv
ConcReceive == \E i \in Invocations, n \in ToolNames, a \in SmallArguments : Receive(i, n, a)
ConcComplete == \E i \in Invocations, o \in SmallOutcomes : Complete(i, o)

ConcNext == ConcReceive \/ ValidateStep \/ ConcComplete \/ ReturnStep

ConcSpec == ConcInit /\ [][ConcNext]_vars

\* The same with fairness, over a smaller input domain.
FairArguments == {NoArgs, [epoch_id |-> PyStr("1")]}
FairOutcomes == SmallOutcomes \cup {Raised("ConnectError", "All connection attempts failed")}

FairReceive == \E i \in Invocations, n \in ToolNames, a \in FairArguments : Receive(i, n, a)
FairComplete == \E i \in Invocations, o \in FairOutcomes : Complete(i, o)

FairNext == FairReceive \/ ValidateStep \/ FairComplete \/ ReturnStep

\* The event loop runs every handler that can run, and every HTTP call ends:
\* with a response, a transport error, or the client's timeout.
Fairness ==
    \A i \in Invocations :
        /\ WF_vars(Validate(i))
        /\ WF_vars(\E o \in FairOutcomes : Complete(i, o))
        /\ WF_vars(Return(i))

FairSpec == ConcInit /\ [][FairNext]_vars /\ Fairness

---------------------------------------------------------------------------
(* Vocabulary of the properties, written out independently of the handlers *)

EpochTools == {"start_epoch", "distribute_subsidies"}

Answered == {"ShortCircuitError", "Success", "HttpError", "TransportFailure", "Done"}

RequiredText == "Error: epoch_id is required"

\* The result is one text block reading txt.
IsText(r, txt) ==
    /\ r.kind = "return"
    /\ Len(r.content) = 1
    /\ r.content[1].type = "text"
    /\ r.content[1].text = txt

\* Piece x occurs in the text of result r.
Embeds(r, x) ==
    /\ r.kind = "return"
    /\ Len(r.content) = 1
    /\ \E k \in DOMAIN r.content[1].parts : r.content[1].parts[k] = x

FirstPart(r) == r.content[1].parts[1]

MissingOrEmpty(a) == "epoch_id" \notin DOMAIN a \/ a.epoch_id = PyStr("")

AbsentOrFalsy(a) ==
    \/ "epoch_id" \notin DOMAIN a
    \/ a.epoch_id \in {PyNone, PyStr(""), PyInt(0), PyBool(FALSE), PyList(<<>>)}

\* Validation as the tool's schema has it: health_check takes no arguments.
PassesValidation(n, a) == n = "health_check" \/ ~AbsentOrFalsy(a)

\* The characters each epoch_id of the input domain puts into the path.
Interpolated(v) ==
    CASE v = PyStr("42")              -> "42"
      [] v = PyStr("a/b")             -> "a/b"
      [] v = PyStr("1")               -> "1"
      [] v = PyStr("2")               -> "2"
      [] v = PyInt(7)                 -> "7"
      [] v = PyList(<<PyStr("x")>>)   -> "['x']"

ConfiguredBase ==
    IF "EPOCH_SERVER_URL" \in DOMAIN environ /\ environ["EPOCH_SERVER_URL"] # ""
    THEN environ["EPOCH_SERVER_URL"]
    ELSE "http://localhost:8080"

\* The request §4.3 gives tool n for arguments a.
RouteOf(n, a) ==
    CASE n = "health_check" ->
            [method |-> "GET", url |-> EPOCH_SERVER_URL \o "/health"]
      [] n = "start_epoch" ->
            [method |-> "POST",
             url |-> EPOCH_SERVER_URL \o "/epochs/" \o Interpolated(a.epoch_id) \o "/start"]
      [] n = "distribute_subsidies" ->
            [method |-> "POST",
             url |-> EPOCH_SERVER_URL \o "/epochs/" \o Interpolated(a.epoch_id) \o "/distribute"]

SuccessPrefix(n) ==
    CASE n = "health_check"         -> "Health check successful: "
      [] n = "start_epoch"          -> "Epoch "
      [] n = "distribute_subsidies" -> "Subsidies distributed for epoch "

FailedPrefix(n) ==
    CASE n = "health_check"         -> "Health check failed: "
      [] n = "start_epoch"          -> "Failed to start epoch "
      [] n = "distribute_subsidies" -> "Failed to distribute subsidies for epoch "

FailedPrefixes == {FailedPrefix(n) : n \in ToolNames}

StatusText(o) ==
    CASE o.status_code = 404 -> "404"
      [] o.status_code = 500 -> "500"

DetailText(o) ==
    CASE o.text = "{\"error\": \"boom\"}" -> "{'error': 'boom'}"
      [] o.text = "boom"                  -> "boom"

FailingStatus(o) == o.kind = "response" /\ (o.status_code < 200 \/ o.status_code > 299)
SuccessStatus(o) == o.kind = "response" /\ o.status_code >= 200 /\ o.status_code <= 299

---------------------------------------------------------------------------
(* C1 *)

\* C1: for start_epoch and distribute_subsidies, an argument mapping with no
\* epoch_id or an empty epoch_id never leads to an HTTP request, and the
\* invocation's result is exactly the text "Error: epoch_id is required".
C1_MissingEpochIdShortCircuits ==
    \A i \in Invocations :
        (pc[i] # "Idle" /\ name[i] \in EpochTools /\ MissingOrEmpty(arguments[i]))
        => /\ requests[i] = <<>>
           /\ pc[i] \in {"Validating", "ShortCircuitError", "Done"}
           /\ pc[i] \in Answered => IsText(result[i], RequiredText)

C1_Witness ==
    \E i \in Invocations :
        /\ pc[i] = "Done"
        /\ name[i] = "start_epoch"
        /\ arguments[i] = [epoch_id |-> PyStr("")]
        /\ requests[i] = <<>>
        /\ IsText(result[i], RequiredText)

---------------------------------------------------------------------------
(* C2 *)

\* C2: an invocation is routed by its tool name to that tool's own handler,
\* and every request it issues is that tool's route with its own epoch_id:
\* GET base/health, POST base/epochs/{epoch_id}/start,
\* POST base/epochs/{epoch_id}/distribute.
C2_RoutedByToolName ==
    \A i \in Invocations :
        (pc[i] \notin {"Idle", "Validating"} /\ PassesValidation(name[i], arguments[i]))
        => /\ Len(requests[i]) = 1
           /\ requests[i][1].method = RouteOf(name[i], arguments[i]).method
           /\ requests[i][1].url = RouteOf(name[i], arguments[i]).url
           /\ pc[i] \in Answered =>
                /\ result[i].kind = "return"
                /\ FirstPart(result[i]) \in {SuccessPrefix(name[i]), FailedPrefix(name[i])}

---------------------------------------------------------------------------
(* C3 *)

\* C3: whatever the outcome (validation failure, success, failing status with
\* a decodable or undecodable body, success status with an undecodable body,
\* transport failure, timeout), the handler hands back exactly one text
\* content block and raises nothing.
C3_AlwaysOneTextBlock ==
    \A i \in Invocations :
        /\ result[i].kind # "raise"
        /\ pc[i] \in Answered =>
            /\ result[i].kind = "return"
            /\ Len(result[i].content) = 1
            /\ result[i].content[1].type = "text"

C3_Witness ==
    \E i \in Invocations :
        /\ pc[i] = "Done"
        /\ outcome[i] = Response(200, "OK")
        /\ result[i].kind = "return"
        /\ Len(result[i].content) = 1

---------------------------------------------------------------------------
(* C4 *)

\* C4: for all three tools, when the HTTP call completes with a failing
\* status, the result text embeds the numeric status code and the error
\* detail from the response body (the decoded body if it decodes, else the
\* raw text).
C4_FailingStatusEmbedsCodeAndDetail ==
    \A i \in Invocations :
        (pc[i] = "Done" /\ FailingStatus(outcome[i]))
        => /\ Embeds(result[i], StatusText(outcome[i]))
           /\ Embeds(result[i], DetailText(outcome[i]))

---------------------------------------------------------------------------
(* C5 *)

\* C5: for all three tools, whenever the HTTP call completes with a success
\* status the result is the tool's success text, and never a "failed" text.
C5_SuccessStatusGivesSuccessText ==
    \A i \in Invocations :
        (pc[i] = "Done" /\ SuccessStatus(outcome[i]))
        => /\ result[i].kind = "return"
           /\ FirstPart(result[i]) = SuccessPrefix(name[i])
           /\ FirstPart(result[i]) \notin FailedPrefixes

---------------------------------------------------------------------------
(* C6 *)

\* C6: every invocation issues at most one HTTP request and exactly one when
\* validation passes; nothing is re-issued after a failing status, a transport
\* failure or a timeout, and a timeout is rendered as the transport-failure
\* text of that tool.
C6_ExactlyOneRequestNoRetry ==
    \A i \in Invocations :
        /\ Len(requests[i]) <= 1
        /\ (pc[i] \notin {"Idle", "Validating"} /\ PassesValidation(name[i], arguments[i]))
                => Len(requests[i]) = 1
        /\ (pc[i] = "Done" /\ outcome[i] = Raised("ReadTimeout", "timed out"))
                => /\ result[i].kind = "return"
                   /\ FirstPart(result[i]) = FailedPrefix(name[i])

---------------------------------------------------------------------------
(* C7 *)

\* C7: the base URL of all three routes is EPOCH_SERVER_URL's value when that
\* is set and non-empty, and http://localhost:8080 when it is unset or empty.
C7_BaseUrlDefaultsWhenUnsetOrEmpty ==
    /\ EPOCH_SERVER_URL = ConfiguredBase
    /\ \A i \in Invocations : \A k \in DOMAIN requests[i] :
            \E path \in {"/health"} \cup
                        {"/epochs/" \o Interpolated(v) \o t :
                            v \in {w \in EpochValues : ~AbsentOrFalsy([epoch_id |-> w])},
                            t \in {"/start", "/distribute"}} :
                requests[i][k].url = ConfiguredBase \o path

---------------------------------------------------------------------------
(* C8 *)

\* What the registered handler hands back for arguments a and HTTP outcome o
\* when it runs with nothing else going on.
RunAlone(a, o) ==
    LET h == request_handlers["CallToolRequest"]
        epoch_id == get(a, "epoch_id")
    IN  IF NeedsEpochId(h) /\ AbsentOrFalsy(a)
        THEN Returns(<<TextContent(<<RequiredText>>)>>)
        ELSE HandlerResult(h, epoch_id, o, Url(h, EPOCH_SERVER_URL, epoch_id))

\* C8: with invocations interleaved at their HTTP calls, each invocation's
\* result is the one its own tool name, arguments and HTTP outcome give when
\* it runs alone, so two identical invocations with the same outcome return
\* the same text whatever else ran before or between them.
C8_ResultDependsOnOwnInputsOnly ==
    /\ \A i \in Invocations :
            pc[i] \in Answered => result[i] = RunAlone(arguments[i], outcome[i])
    /\ \A i, j \in Invocations :
            ( /\ pc[i] = "Done" /\ pc[j] = "Done"
              /\ name[i] = name[j]
              /\ arguments[i] = arguments[j]
              /\ outcome[i] = outcome[j] )
            => /\ result[i].kind = "return" /\ result[j].kind = "return"
               /\ result[i].content[1].text = result[j].content[1].text

C8_Witness ==
    \E i, j \in Invocations :
        /\ i # j
        /\ pc[i] = "Done" /\ pc[j] = "Calling"
        /\ arguments[i] = [epoch_id |-> PyStr("1")]
        /\ arguments[j] = [epoch_id |-> PyStr("2")]
        /\ outcome[i] = Response(500, "boom")
        /\ Embeds(result[i], "1")
        /\ ~Embeds(result[i], "2")

---------------------------------------------------------------------------
(* C9 *)

Transitions ==
    { <<"Idle", "Validating">>,
      <<"Validating", "ShortCircuitError">>, <<"Validating", "Calling">>,
      <<"Calling", "Success">>, <<"Calling", "HttpError">>,
      <<"Calling", "TransportFailure">>,
      <<"ShortCircuitError", "Done">>, <<"Success", "Done">>,
      <<"HttpError", "Done">>, <<"TransportFailure", "Done">> }

FollowsStateMachine ==
    \A i \in Invocations :
        pc'[i] # pc[i] =>
            /\ <<pc[i], pc'[i]>> \in Transitions
            /\ pc'[i] = "Calling" =>
                    (handler[i] = "handle_health_check" \/ ~AbsentOrFalsy(arguments[i]))

\* C9: an invocation moves only along Idle -> Validating ->
\* (ShortCircuitError | Calling) -> (Success | HttpError | TransportFailure)
\* -> Done, enters Calling only when validation passed, and, every HTTP call
\* completing or timing out, ends in Done with a text result.
C9_StateMachineAndTermination ==
    /\ [][FollowsStateMachine]_vars
    /\ \A i \in Invocations :
            (pc[i] = "Validating") ~>
                (pc[i] = "Done" /\ result[i].kind = "return" /\ Len(result[i].content) = 1)

C9_Witness ==
    \E i \in Invocations :
        /\ pc[i] = "Done"
        /\ outcome[i] = Raised("ReadTimeout", "timed out")
        /\ result[i].kind = "return"
        /\ \E j \in Invocations : pc[j] = "Done" /\ outcome[j] = NoOutcome

---------------------------------------------------------------------------
(* C10 *)

\* C10: start_epoch and distribute_subsidies test epoch_id for truthiness:
\* absent, None, "", 0, False and [] short-circuit with
\* "Error: epoch_id is required" and no request; every other value, a
\* non-string or a string with '/' included, goes into one request whose path
\* carries the value's text as it is.
C10_TruthinessValidation ==
    \A i \in Invocations :
        (name[i] \in EpochTools /\ pc[i] \notin {"Idle", "Validating"}) =>
            IF AbsentOrFalsy(arguments[i])
            THEN /\ requests[i] = <<>>
                 /\ IsText(result[i], RequiredText)
            ELSE /\ Len(requests[i]) = 1
                 /\ requests[i][1].method = "POST"
                 /\ \E t \in {"/start", "/distribute"} :
                        requests[i][1].url =
                            EPOCH_SERVER_URL \o "/epochs/"
                                \o Interpolated(arguments[i].epoch_id) \o t
                 /\ ~IsText(result[i], RequiredText)

C10_Witness ==
    \E i \in Invocations :
        /\ name[i] = "start_epoch"
        /\ arguments[i] = [epoch_id |-> PyStr("a/b")]
        /\ pc[i] = "Calling"
        /\ handler[i] = "handle_start_epoch"
        /\ requests[i][1].url = EPOCH_SERVER_URL \o "/epochs/a/b/start"

=============================================================================
